---- MODULE Spec2Model ----
(***************************************************************************)
(* Model of uhdl/hw.py: the configuration merge, the conversion-spec       *)
(* registry, and the HW facade (convert, _convert, sim).                   *)
(*                                                                         *)
(* Python dicts are TLA+ functions.  A plain dict (kwargs, HW.config,      *)
(* converter_conf) is keyed by the strings exactly as written; a           *)
(* CaselessDict is keyed by the lower-cased strings.  None is the string   *)
(* "None".  The file system is a set of <<directory, file name>> pairs;    *)
(* "." is the directory the process is in when a call starts.              *)
(***************************************************************************)
EXTENDS Naturals, Sequences, FiniteSets, TLC

VARIABLES
    class_config,  \* HW.config, the class-level defaults        (hw.py:80)
    config,        \* self.config of the instance                (hw.py:100)
    pc,            \* position of the call in progress
    op,            \* "none", "convert" or "sim"
    call_kwargs,   \* the keyword arguments as the caller passed them
    kwargs,        \* kwargs after the method's own defaults are added
    conf,          \* the merged configuration of the call
    converter,     \* the converter get_convspec returned, or None
    attrs,         \* converter -> the attributes set on it by this call
    files,         \* the artifact file list of the call
    idx,           \* index into files of the relocation loop
    fs,            \* the file system
    cwd,           \* the process working directory
    prev_cwd,      \* the directory cd() saved on entry
    err,           \* "none" while running, then "ok" or the exception
    log,           \* the external effects of the call, in order
    cosim_args     \* the argument tuples backend.cosim_gen received

vars == <<class_config, config, pc, op, call_kwargs, kwargs, conf, converter,
          attrs, files, idx, fs, cwd, prev_cwd, err, log, cosim_args>>

None == "None"

EmptyDict == [k \in {} |-> None]

(***************************************************************************)
(* Input sets.                                                             *)
(***************************************************************************)
\* names of the behavioural descriptions (top.__name__)
Tops == {"adder", "mux"}

\* values a caller rebinds in the stored configuration
CfgHdl == {"myhdl", "verilog"}
CfgBackend == {"myhdl", "icarus", "modelsim"}

\* keyword arguments of a call, key by key
HdlArgs ==
    {EmptyDict}
    \cup {"hdl" :> v : v \in {"myhdl", "verilog", "vhdl", "VHDL", "sv"}}
    \cup {"HDL" :> v : v \in {"myhdl", "verilog"}}

BackendArgs ==
    {EmptyDict}
    \cup {"backend" :> v : v \in {"myhdl", "icarus", "modelsim", "ghdl", "nosim"}}
    \cup {"Backend" :> v : v \in {"icarus", "modelsim", "nosim"}}

PathArgs == {EmptyDict} \cup {"path" :> v : v \in {"out", "nodir"}}

TbArgs == {EmptyDict, "tb" :> FALSE}

TraceArgs == {EmptyDict, "trace" :> FALSE}

KwArgs ==
    {h @@ b @@ p @@ t @@ r :
        h \in HdlArgs, b \in BackendArgs, p \in PathArgs, t \in TbArgs, r \in TraceArgs}

\* directories that exist; any other path names no directory
Dirs == {".", "out"}

(***************************************************************************)
(* str.lower() on the strings the model uses as keys and names.            *)
(***************************************************************************)
Lower(s) ==
    CASE s = "HDL" -> "hdl"
      [] s = "Backend" -> "backend"
      [] s = "VHDL" -> "vhdl"
      [] OTHER -> s

(***************************************************************************)
(* uhdl.structures.CaselessDict: keys compare with case folded.            *)
(***************************************************************************)
CaselessDict(d) ==
    [k \in {Lower(x) : x \in DOMAIN d} |->
        d[CHOOSE x \in DOMAIN d : Lower(x) = k]]

CaselessGet(d, k) == d[Lower(k)]

CaselessSet(d, k, v) == (Lower(k) :> v) @@ d

\* the orders in which update() can leave keys that fold together: for each
\* folded key, which key of the argument is written last
LastWrites(new) ==
    {w \in [{Lower(x) : x \in DOMAIN new} -> DOMAIN new] :
        \A k \in DOMAIN w : Lower(w[k]) = k}

CaselessUpdate(d, new, w) ==
    [k \in DOMAIN d \cup DOMAIN w |->
        IF k \in DOMAIN w THEN new[w[k]] ELSE d[k]]

(***************************************************************************)
(* merge_config(current, new).  The result names the returned mapping and  *)
(* the contents of both argument objects once the call is over.            *)
(***************************************************************************)
\* variant: update(new) applied to current itself, without the copy
MergeConfigInPlace(current, new, w) ==
    LET merged == CaselessUpdate(current, new, w)
    IN  [merged |-> merged, current |-> merged, new |-> new]

MergeConfig(current, new, w) ==
    IF DOMAIN new = {}
    THEN [merged |-> current, current |-> current, new |-> new]
    ELSE [merged |-> CaselessUpdate(CaselessDict(current), new, w),
          current |-> current, new |-> new]

(***************************************************************************)
(* _convspec and get_convspec.                                             *)
(***************************************************************************)
Convspec ==
    CaselessDict([myhdl |-> <<"toMyHDL", None>>,
                  verilog |-> <<"toVerilog", "v">>,
                  vhdl |-> <<"toVHDL", "vhd">>])

FileList(name, ext, no_testbench) ==
    IF ext = None
    THEN <<>>
    ELSE LET base == IF no_testbench THEN <<name>> ELSE <<name, "tb_" \o name>>
         IN  [i \in 1..Len(base) |-> base[i] \o "." \o ext]

GetConvspec(cc) ==
    LET hdl == cc["hdl"]
        rest == [k \in DOMAIN cc \ {"hdl"} |-> cc[k]]
    IN  IF Lower(hdl) \notin DOMAIN Convspec
        THEN [err |-> "KeyError", converter |-> None, attrs |-> EmptyDict,
              files |-> <<>>]
        ELSE LET spec == CaselessGet(Convspec, hdl)
             IN  [err |-> "none", converter |-> spec[1],
                  attrs |-> (spec[1] :> rest),
                  files |-> FileList(rest["name"], spec[2], rest["no_testbench"])]

(***************************************************************************)
(* CoSimulator.registry: backend name -> the representations it compiles.  *)
(***************************************************************************)
Registry ==
    CaselessDict([icarus |-> {"verilog"},
                  modelsim |-> {"vhdl", "verilog"},
                  ghdl |-> {"vhdl"}])

Registered(b) == Lower(b) \in DOMAIN Registry

\* converter.portmap; the toMyHDL class has no such attribute
HasPortmap(c) == c \in {"toVerilog", "toVHDL"}

Portmap(c) == "portmap_" \o c

(***************************************************************************)
(* class HW.                                                               *)
(***************************************************************************)
HWConfig ==
    [name |-> None, path |-> ".", hdl |-> "myhdl", backend |-> "myhdl",
     timescale |-> "1ns/1ps", tb |-> TRUE, trace |-> TRUE]

\* HW.__init__: the instance configuration and the class configuration after it
HWInit(cls, top) ==
    [config |-> CaselessSet(CaselessDict(cls), "name", top), class |-> cls]

\* convert(): the default representation of an explicit conversion
ConvertDefaults(kw) ==
    IF "hdl" \notin DOMAIN kw THEN kw @@ ("hdl" :> "verilog") ELSE kw

\* _convert(): the rejected representation
NotImplemented(c) == c["hdl"] = "vhdl"

\* variant: the testbench flag alone decides no_testbench
ConverterConfTbOnly(c) ==
    [hdl |-> c["hdl"], name |-> c["name"], timescale |-> c["timescale"],
     no_testbench |-> ~c["tb"], trace |-> c["trace"]]

ConverterConf(c) ==
    [hdl |-> c["hdl"], name |-> c["name"], timescale |-> c["timescale"],
     no_testbench |-> ~(c["tb"] \/ c["trace"]), trace |-> c["trace"]]

\* sim(): the backend name the representation is resolved against
BackendName(kw) ==
    IF "backend" \in DOMAIN kw THEN kw["backend"] ELSE "myhdl"

\* variant: the ambiguity test off by one
AmbiguousOverTwo(compilers) == Cardinality(compilers) > 2

Ambiguous(compilers) == Cardinality(compilers) > 1

ImplicitHdl(compilers) == CHOOSE c \in compilers : TRUE

\* variant: no implicit representation is written into kwargs
SimDefaultsKeepStored(kw) ==
    LET backend_name == BackendName(kw)
    IN  IF backend_name # "" /\ backend_name # "myhdl"
        THEN IF ~Registered(kw["backend"])
             THEN [err |-> "KeyError", kwargs |-> kw]
             ELSE LET compilers == CaselessGet(Registry, kw["backend"])
                  IN  IF "hdl" \notin DOMAIN kw /\ Ambiguous(compilers)
                      THEN [err |-> "ValueError", kwargs |-> kw]
                      ELSE [err |-> "none", kwargs |-> kw]
        ELSE [err |-> "none", kwargs |-> kw]

\* sim(): lines 172-178, the kwargs they leave or the exception they raise
SimDefaults(kw) ==
    LET backend_name == BackendName(kw)
    IN  IF backend_name # "" /\ backend_name # "myhdl"
        THEN IF ~Registered(kw["backend"])
             THEN [err |-> "KeyError", kwargs |-> kw]
             ELSE LET compilers == CaselessGet(Registry, kw["backend"])
                  IN  IF "hdl" \notin DOMAIN kw
                      THEN IF Ambiguous(compilers)
                           THEN [err |-> "ValueError", kwargs |-> kw]
                           ELSE [err |-> "none",
                                 kwargs |-> kw @@ ("hdl" :> ImplicitHdl(compilers))]
                      ELSE [err |-> "none", kwargs |-> kw]
        ELSE [err |-> "none", kwargs |-> kw]

(***************************************************************************)
(* shutil.copy, os.remove, the converters' output and uhdl.utils.cd.       *)
(***************************************************************************)
\* copy file f of directory d to path dest: into dest when dest is a
\* directory, else onto a file named dest
Copy(files_, d, f, dest) ==
    IF dest \in Dirs THEN files_ \cup {<<dest, f>>} ELSE files_ \cup {<<d, dest>>}

\* variant: the original is left in place
RemoveNothing(files_, d, f) == files_

Remove(files_, d, f) == files_ \ {<<d, f>>}

\* a textual converter writes its artifact files into the working directory
ConverterWrites(files_, d, list) == files_ \cup {<<d, list[i]>> : i \in DOMAIN list}

\* the directory cd(path) puts the process in on entry
CdEnter(cur, path) == path

\* the directory cd() leaves the process in
CdExit(prev, cur, raised) == prev

(***************************************************************************)
(* The state machine.                                                      *)
(***************************************************************************)
Init ==
    /\ class_config = HWConfig
    /\ \E top \in Tops : config = HWInit(HWConfig, top).config
    /\ pc = "idle"
    /\ op = "none"
    /\ call_kwargs = EmptyDict
    /\ kwargs = EmptyDict
    /\ conf = EmptyDict
    /\ converter = None
    /\ attrs = EmptyDict
    /\ files = <<>>
    /\ idx = 1
    /\ fs = {}
    /\ cwd = "."
    /\ prev_cwd = "."
    /\ err = "none"
    /\ log = <<>>
    /\ cosim_args = <<>>

\* the variables a call leaves alone until it reaches the step that sets them
Untouched == UNCHANGED <<converter, attrs, files, idx, fs, cwd, prev_cwd, cosim_args>>

\* HW(top, ...): a new instance takes the place of the modelled one
Construct(top) ==
    /\ pc = "idle"
    /\ LET r == HWInit(class_config, top)
       IN  config' = r.config /\ class_config' = r.class
    /\ UNCHANGED <<pc, op, call_kwargs, kwargs, conf, err, log>>
    /\ Untouched

\* hw.config[k] = v: the caller rebinds a stored default
SetConfig(k, v) ==
    /\ pc = "idle"
    /\ CaselessGet(config, k) # v
    /\ config' = CaselessSet(config, k, v)
    /\ UNCHANGED <<class_config, pc, op, call_kwargs, kwargs, conf, err, log>>
    /\ Untouched

\* convert(**kw) up to the call of _convert
Convert(kw) ==
    /\ pc = "idle"
    /\ \E w \in LastWrites(ConvertDefaults(kw)) :
        LET m == MergeConfig(config, ConvertDefaults(kw), w)
        IN  /\ config' = m.current
            /\ kwargs' = m.new
            /\ conf' = m.merged
    /\ op' = "convert"
    /\ call_kwargs' = kw
    /\ pc' = "_convert"
    /\ UNCHANGED <<class_config, err, log>>
    /\ Untouched

\* sim(**kw) up to the call of _convert
Sim(kw) ==
    /\ pc = "idle"
    /\ op' = "sim"
    /\ call_kwargs' = kw
    /\ LET d == SimDefaults(kw)
       IN  IF d.err # "none"
           THEN /\ err' = d.err
                /\ pc' = "done"
                /\ kwargs' = d.kwargs
                /\ UNCHANGED <<config, conf>>
           ELSE /\ \E w \in LastWrites(d.kwargs) :
                    LET m == MergeConfig(config, d.kwargs, w)
                    IN  /\ config' = m.current
                        /\ kwargs' = m.new
                        /\ conf' = m.merged
                /\ pc' = "_convert"
                /\ UNCHANGED err
    /\ UNCHANGED <<class_config, log>>
    /\ Untouched

\* _convert(): rejection, get_convspec and the converter call
DoConvert ==
    /\ pc = "_convert"
    /\ IF NotImplemented(conf)
       THEN /\ err' = "NotImplementedError"
            /\ pc' = "done"
            /\ UNCHANGED <<converter, attrs, files, fs, log>>
       ELSE LET g == GetConvspec(ConverterConf(conf))
            IN  IF g.err # "none"
                THEN /\ err' = g.err
                     /\ pc' = "done"
                     /\ log' = Append(log, <<"lookup", conf["hdl"]>>)
                     /\ UNCHANGED <<converter, attrs, files, fs>>
                ELSE /\ converter' = g.converter
                     /\ attrs' = g.attrs
                     /\ files' = g.files
                     /\ log' = log \o << <<"lookup", conf["hdl"]>>,
                                         <<"setattr", g.converter>>,
                                         <<"invoke", g.converter>> >>
                     /\ \/ /\ fs' = ConverterWrites(fs, cwd, g.files)
                           /\ pc' = "relocate"
                           /\ UNCHANGED err
                        \/ /\ g.converter # "toMyHDL"
                           /\ err' = "ConversionError"
                           /\ pc' = "done"
                           /\ UNCHANGED fs
    /\ UNCHANGED <<class_config, config, op, call_kwargs, kwargs, conf, idx, cwd,
                   prev_cwd, cosim_args>>

\* variant: the destination test inverted
RelocatingInverted == pc = "relocate" /\ conf["path"] = "." /\ idx <= Len(files)

Relocating == pc = "relocate" /\ conf["path"] # "." /\ idx <= Len(files)

\* shutil.copy(f, dest_path)
CopyFile ==
    /\ Relocating
    /\ \/ /\ <<cwd, files[idx]>> \in fs
          /\ fs' = Copy(fs, cwd, files[idx], conf["path"])
          /\ log' = Append(log, <<"copy", files[idx]>>)
          /\ pc' = "remove"
          /\ UNCHANGED err
       \/ /\ err' = "IOError"
          /\ pc' = "done"
          /\ UNCHANGED <<fs, log>>
    /\ UNCHANGED <<class_config, config, op, call_kwargs, kwargs, conf, converter,
                   attrs, files, idx, cwd, prev_cwd, cosim_args>>

\* os.remove(f)
RemoveFile ==
    /\ pc = "remove"
    /\ \/ /\ <<cwd, files[idx]>> \in fs
          /\ fs' = Remove(fs, cwd, files[idx])
          /\ log' = Append(log, <<"remove", files[idx]>>)
          /\ idx' = idx + 1
          /\ pc' = "relocate"
          /\ UNCHANGED err
       \/ /\ err' = "OSError"
          /\ pc' = "done"
          /\ UNCHANGED <<fs, log, idx>>
    /\ UNCHANGED <<class_config, config, op, call_kwargs, kwargs, conf, converter,
                   attrs, files, cwd, prev_cwd, cosim_args>>

\* _convert() returns; convert() returns, sim() goes on
EndConvert ==
    /\ pc = "relocate"
    /\ ~Relocating
    /\ IF op = "convert"
       THEN err' = "ok" /\ pc' = "done"
       ELSE pc' = "cd" /\ UNCHANGED err
    /\ UNCHANGED <<class_config, config, op, call_kwargs, kwargs, conf, converter,
                   attrs, files, idx, fs, cwd, prev_cwd, log, cosim_args>>

\* with cd(conf['path']): entry
EnterCd ==
    /\ pc = "cd"
    /\ prev_cwd' = cwd
    /\ IF conf["path"] \in Dirs
       THEN /\ cwd' = CdEnter(cwd, conf["path"])
            /\ log' = Append(log, <<"chdir", conf["path"]>>)
            /\ pc' = "in_cd"
            /\ UNCHANGED err
       ELSE /\ err' = "OSError"
            /\ pc' = "done"
            /\ UNCHANGED <<cwd, log>>
    /\ UNCHANGED <<class_config, config, op, call_kwargs, kwargs, conf, converter,
                   attrs, files, idx, fs, cosim_args>>

\* the body of the with statement: gen() or backend.cosim_gen(...)
Execute ==
    /\ pc = "in_cd"
    /\ pc' = "exit_cd"
    /\ IF conf["backend"] = "myhdl"
       THEN /\ log' = Append(log, <<"gen">>)
            /\ err' \in {"ok", "SimError"}
            /\ UNCHANGED cosim_args
       ELSE IF ~Registered(conf["backend"])
            THEN err' = "KeyError" /\ UNCHANGED <<log, cosim_args>>
            ELSE IF ~HasPortmap(converter)
                 THEN err' = "AttributeError" /\ UNCHANGED <<log, cosim_args>>
                 ELSE /\ log' = Append(log, <<"cosim", Lower(conf["backend"])>>)
                      /\ cosim_args' =
                            Append(cosim_args, <<conf["hdl"], files, Portmap(converter)>>)
                      /\ err' \in {"ok", "SimError"}
    /\ UNCHANGED <<class_config, config, op, call_kwargs, kwargs, conf, converter,
                   attrs, files, idx, fs, cwd, prev_cwd>>

\* variant: the directory is entered without the with statement's exit
ExitCdNoRestore ==
    /\ pc = "exit_cd"
    /\ pc' = "done"
    /\ UNCHANGED <<class_config, config, op, call_kwargs, kwargs, conf, converter,
                   attrs, files, idx, fs, cwd, prev_cwd, err, log, cosim_args>>

\* with cd(...): exit, then sim() returns or the exception propagates
ExitCd ==
    /\ pc = "exit_cd"
    /\ cwd' = CdExit(prev_cwd, cwd, err # "ok")
    /\ pc' = "done"
    /\ UNCHANGED <<class_config, config, op, call_kwargs, kwargs, conf, converter,
                   attrs, files, idx, fs, prev_cwd, err, log, cosim_args>>

\* the caller has the outcome; the next call starts in a fresh directory
Return ==
    /\ pc = "done"
    /\ pc' = "idle"
    /\ op' = "none"
    /\ call_kwargs' = EmptyDict
    /\ kwargs' = EmptyDict
    /\ conf' = EmptyDict
    /\ converter' = None
    /\ attrs' = EmptyDict
    /\ files' = <<>>
    /\ idx' = 1
    /\ fs' = {}
    /\ cwd' = "."
    /\ prev_cwd' = "."
    /\ err' = "none"
    /\ log' = <<>>
    /\ cosim_args' = <<>>
    /\ UNCHANGED <<class_config, config>>

Next ==
    \/ \E top \in Tops : Construct(top)
    \/ \E v \in CfgHdl : SetConfig("hdl", v)
    \/ \E v \in CfgBackend : SetConfig("backend", v)
    \/ \E kw \in KwArgs : Convert(kw)
    \/ \E kw \in KwArgs : Sim(kw)
    \/ DoConvert
    \/ CopyFile
    \/ RemoveFile
    \/ EndConvert
    \/ EnterCd
    \/ Execute
    \/ ExitCd
    \/ Return

Spec == Init /\ [][Next]_vars

(***************************************************************************)
(* Properties.                                                             *)
(***************************************************************************)
Merged == DOMAIN conf # {}

Kinds(ks) == {i \in DOMAIN log : log[i][1] \in ks}

Count(k) == Cardinality(Kinds({k}))

\* every event of a kind in a comes before every event of a kind in b
Before(a, b) == \A i \in Kinds(a), j \in Kinds(b) : i < j

\* the caller's keyword arguments under their canonical (lower-case) keys
Canon(kw) == CaselessDict(kw)

HasKey(kw, k) == \E x \in DOMAIN kw : Lower(x) = k

OnlyWrite(kw) == CHOOSE w \in LastWrites(kw) : TRUE

\* C1: a call whose resolved representation is 'vhdl' in any letter casing
\* fails with NotImplementedError, and no converter is looked up, given
\* attributes or invoked and no file is copied or removed.
C1_VhdlRejected ==
    (Merged /\ Lower(conf["hdl"]) = "vhdl") =>
        /\ Kinds({"lookup", "setattr", "invoke", "copy", "remove"}) = {}
        /\ DOMAIN attrs = {}
        /\ pc \in {"_convert", "done"}
        /\ pc = "done" => err = "NotImplementedError"

C2_Pre ==
    /\ op = "sim"
    /\ "backend" \in DOMAIN call_kwargs
    /\ call_kwargs["backend"] # "myhdl"
    /\ Registered(call_kwargs["backend"])
    /\ Cardinality(CaselessGet(Registry, call_kwargs["backend"])) >= 2
    /\ "hdl" \notin DOMAIN call_kwargs

\* C2: sim(backend=B) with B registered, B # 'myhdl', B declaring two or more
\* representations and no 'hdl' keyword fails with ValueError; nothing is
\* converted, no attribute is set, no file is touched and the working
\* directory never changes.
C2_Ambiguous ==
    C2_Pre =>
        /\ pc = "done"
        /\ err = "ValueError"
        /\ ~Merged
        /\ log = <<>>
        /\ converter = None
        /\ DOMAIN attrs = {}
        /\ fs = {}
        /\ cwd = "."
        /\ cosim_args = <<>>

C2_Witness == C2_Pre /\ pc = "done" /\ err = "ValueError"

C3_Pre ==
    /\ op = "sim"
    /\ "backend" \in DOMAIN call_kwargs
    /\ call_kwargs["backend"] # "myhdl"
    /\ Registered(call_kwargs["backend"])
    /\ Cardinality(CaselessGet(Registry, call_kwargs["backend"])) = 1
    /\ ~HasKey(call_kwargs, "hdl")

C3_R == CHOOSE r \in CaselessGet(Registry, call_kwargs["backend"]) : TRUE

\* C3: sim(backend=B) with B registered, B # 'myhdl', B declaring exactly one
\* representation R and no representation keyword resolves to R whatever the
\* stored 'hdl' is: the merged configuration holds R, the converter used is
\* the one registered for R, the file list carries R's extension, and a call
\* that completes has called the backend exactly once with (R, files,
\* the converter's portmap).
C3_Implicit ==
    C3_Pre =>
        /\ Merged
        /\ conf["hdl"] = C3_R
        /\ converter # None =>
            /\ converter = CaselessGet(Convspec, C3_R)[1]
            /\ files = FileList(conf["name"], CaselessGet(Convspec, C3_R)[2],
                                ~(conf["tb"] \/ conf["trace"]))
        /\ Len(cosim_args) <= 1
        /\ (pc = "done" /\ err = "ok") =>
            /\ cosim_args = << <<C3_R, files, Portmap(converter)>> >>
            /\ Count("cosim") = 1
            /\ Count("gen") = 0

C3_Witness ==
    /\ C3_Pre
    /\ pc = "done"
    /\ err = "ok"
    /\ config["hdl"] # C3_R
    /\ Len(files) = 2
    /\ Len(cosim_args) = 1

\* C4: sim() with no backend keyword takes the backend from the stored
\* configuration: with a stored non-default backend B and no representation
\* keyword it fails with ValueError when B declares several representations
\* and resolves to B's representation when B declares one.
C4_StoredBackend ==
    ( /\ op = "sim"
      /\ ~HasKey(call_kwargs, "backend")
      /\ ~HasKey(call_kwargs, "hdl")
      /\ config["backend"] # "myhdl"
      /\ Registered(config["backend"]) ) =>
        LET compilers == CaselessGet(Registry, config["backend"])
        IN  IF Cardinality(compilers) > 1
            THEN pc = "done" /\ err = "ValueError"
            ELSE Merged /\ conf["hdl"] \in compilers

\* C5: a keyword under a key that differs from the canonical option name only
\* in letter case has the effect of the same value under the canonical key:
\* the same early failure, or the same merged configuration.
C5_CaselessKeys ==
    /\ (op = "convert" /\ pc # "idle") =>
        LET kw == ConvertDefaults(Canon(call_kwargs))
        IN  conf = MergeConfig(config, kw, OnlyWrite(kw)).merged
    /\ (op = "sim" /\ pc # "idle") =>
        LET d == SimDefaults(Canon(call_kwargs))
        IN  IF d.err # "none"
            THEN pc = "done" /\ err = d.err
            ELSE conf = MergeConfig(config, d.kwargs, OnlyWrite(d.kwargs)).merged

\* C6: no step changes the class-level configuration, and no step of a
\* convert() or sim() call changes the instance's stored configuration;
\* merge_config leaves its override argument as it was and returns the
\* stored configuration itself for an empty override.
C6_NoLeak ==
    [][ /\ class_config' = class_config
        /\ (pc # "idle" \/ pc' # "idle") => config' = config
        /\ (pc = "idle" /\ op' = "convert") => kwargs' = ConvertDefaults(call_kwargs')
        /\ (pc = "idle" /\ op' = "sim") => kwargs' = SimDefaults(call_kwargs').kwargs
        /\ (pc = "idle" /\ pc' = "_convert" /\ kwargs' = EmptyDict) => conf' = config
      ]_vars

C6_Witness ==
    /\ pc = "done"
    /\ err = "ok"
    /\ conf["hdl"] # config["hdl"]
    /\ conf["path"] # config["path"]
    /\ conf["backend"] # config["backend"]

ConvertReturned == op = "convert" /\ pc = "done" /\ err = "ok"

At(d, list) == \A i \in DOMAIN list : <<d, list[i]>> \in fs

NotAt(d, list) == \A i \in DOMAIN list : <<d, list[i]>> \notin fs

C9_WorkingDirectory ==
    /\ pc \in {"idle", "done"} => cwd = "."
    /\ cwd # "." => (op = "sim" /\ pc \in {"in_cd", "exit_cd"})

C9_Witness ==
    /\ op = "sim"
    /\ pc = "done"
    /\ err = "SimError"
    /\ conf["path"] = "out"
    /\ Kinds({"chdir"}) # {}

\* C10: a sim() call that succeeds has invoked exactly one execution strategy,
\* once; with a non-default backend it converted, then relocated, then
\* entered the destination, then called the backend, and every file name the
\* backend received names a file of the working directory at that moment.
C10_Order ==
    (op = "sim" /\ pc \in {"exit_cd", "done"} /\ err = "ok") =>
        /\ Count("gen") + Count("cosim") = 1
        /\ conf["backend"] # "myhdl" =>
            /\ Count("cosim") = 1
            /\ Count("invoke") = 1
            /\ Count("chdir") = 1
            /\ Before({"invoke"}, {"copy", "remove", "chdir", "cosim"})
            /\ Before({"copy", "remove"}, {"chdir", "cosim"})
            /\ Before({"chdir"}, {"cosim"})
            /\ Len(cosim_args) = 1
            /\ cosim_args[1][2] = files
            /\ At(conf["path"], files)
            /\ pc = "exit_cd" => cwd = conf["path"]

C10_Witness ==
    /\ op = "sim"
    /\ pc = "exit_cd"
    /\ err = "ok"
    /\ conf["backend"] = "icarus"
    /\ conf["path"] = "out"
    /\ cwd = "out"
    /\ Len(files) = 2

====
